---- MODULE Spec2Model ----
(***************************************************************************)
(* The filter / lookup-cache / pagination core of poke-code                *)
(* (core.js, filters.js, init.js, api-service.js, pokeball-loader.js).     *)
(*                                                                         *)
(* JavaScript runs one macrotask at a time and drains the microtask queue  *)
(* after it.  A step of the model is therefore either a macrotask (a user  *)
(* event, the settling of a network fetch) taken up to the point where     *)
(* every async function is parked on a promise that only the network can   *)
(* settle, or the continuation of filterData after `await Promise.all`,    *)
(* which runs in the same drain: while such a continuation is runnable no  *)
(* macrotask is enabled.                                                   *)
(***************************************************************************)
EXTENDS FiniteSets, Integers, Sequences, TLC

\* ---------------------------------------------------------------- bounds
MaxPasses == 2
MaxCatalog == 45
MaxIdleClicks == 1
MaxEarlyPasses == 1
MaxPagePasses == 1
MaxNames == 2           \* entries of an index response
MaxCalls == 10          \* show() calls, and hide() calls, on the loader alone

\* ------------------------------------------------------ program constants
batchSize == 20

Min(a, b) == IF a <= b THEN a ELSE b

\* ------------------------------------------------------------------ text
\* Strings are sequences of one-character strings.
Upper == <<"C", "H">>
LowerOf == <<"c", "h">>
Digit == <<"0", "1", "2", "3", "4", "5", "6", "7", "8", "9">>
WhiteSpace == {" "}

lowerChar(c) ==
    IF \E i \in DOMAIN Upper : Upper[i] = c
    THEN LowerOf[CHOOSE i \in DOMAIN Upper : Upper[i] = c]
    ELSE c

toLowerCase(s) == [i \in DOMAIN s |-> lowerChar(s[i])]

RECURSIVE trimStart(_)
trimStart(s) ==
    IF s # <<>> /\ Head(s) \in WhiteSpace THEN trimStart(Tail(s)) ELSE s

RECURSIVE trimEnd(_)
trimEnd(s) ==
    IF s # <<>> /\ s[Len(s)] \in WhiteSpace
    THEN trimEnd(SubSeq(s, 1, Len(s) - 1))
    ELSE s

\* String.prototype.trim; trim_nothing leaves the text as typed
trim_nothing(s) == s
trim(s) == trimEnd(trimStart(s))

\* String.prototype.includes
includes(s, sub) ==
    \E i \in 0..(Len(s) - Len(sub)) : SubSeq(s, i + 1, i + Len(sub)) = sub

\* Number.prototype.toString for the positive integers used as ids
RECURSIVE toString(_)
toString(n) ==
    IF n < 10 THEN <<Digit[n + 1]>>
    ELSE Append(toString(n \div 10), Digit[(n % 10) + 1])

\* Array.prototype.includes
arrayIncludes(list, x) == \E i \in DOMAIN list : list[i] = x

\* --------------------------------------------- what the remote API serves
bulbasaur == <<"b", "u", "l", "b", "a", "s", "a", "u", "r">>
charmander == <<"c", "h", "a", "r", "m", "a", "n", "d", "e", "r">>
squirtle == <<"s", "q", "u", "i", "r", "t", "l", "e">>
vulpix == <<"v", "u", "l", "p", "i", "x">>

Pokemon(i, n) == [id |-> i, name |-> n]

\* the three-entry catalog of the specification's scenarios
SmallCatalog == <<Pokemon(1, bulbasaur), Pokemon(4, charmander), Pokemon(7, squirtle)>>

\* a catalog whose entries are all of type fire
FireCatalog == <<Pokemon(4, charmander), Pokemon(37, vulpix)>>

\* a catalog of n entries, ids 1..n, names "mon<id>"
LongCatalog(n) == [i \in 1..n |-> Pokemon(i, <<"m", "o", "n">> \o toString(i))]

\* category values in the order the API lists them (and the sidebar shows them)
TypeOrder == <<"fire", "shadow">>
ColorOrder == <<"red">>
GenderOrder == <<"female">>

\* member names the API returns for a category value
Members(cat, v) ==
    CASE cat = "type" /\ v = "fire" -> <<charmander, vulpix>>
      [] cat = "type" /\ v = "shadow" -> <<>>
      [] cat = "color" /\ v = "red" -> <<charmander, squirtle>>
      [] cat = "gender" /\ v = "female" -> <<bulbasaur, charmander>>
      [] OTHER -> <<>>

\* texts the user types into the search box
Queries == {<<" ">>, <<" ", "C", "h", "a", "r">>}
PageQueries == {<<"7">>, <<"x">>}
TextQueries == {<<" ", "C", "h", "a", "r">>, <<"4">>, <<"H", "A", " ">>, <<"x">>}

Range(s) == {s[i] : i \in DOMAIN s}

\* ------------------------------------------------------------------ state
VARIABLES
    pokemonData,        \* core.js: the catalog
    filteredData,       \* core.js: the published Filtered Result
    currentBatchIndex,  \* core.js: the pagination offset
    typeMap, colorMap, genderMap,  \* core.js: value -> [url, data]
    searchInput,        \* value of the search box
    checkedTypes, checkedColors, checkedGender,  \* sidebar widgets
    cards,              \* children of contentElms.cardsContainer
    loadMoreVisible,    \* class content__button--visible
    noResultsVisible,   \* class content__no-results--visible
    loader,             \* the pokeball-loader element
    passes,             \* filterData calls parked on `await Promise.all`
    load,               \* the four requests of loadInitialData
    received,           \* history: `result.results` of each index response
    loaderCalls,        \* show() and hide() calls made on the loader from outside core.js
    initPhase,          \* position of loadInitialData
    fetchCount,         \* history: member fetches issued per category value
    lastPub,            \* history: the pass that published last
    batches,            \* history: batches of loadNextBatch since the last publish
    nextId,             \* history: number of filterData calls so far
    userPasses          \* history: filterData calls started by user events

vars == <<pokemonData, filteredData, currentBatchIndex, typeMap, colorMap,
          genderMap, searchInput, checkedTypes, checkedColors, checkedGender,
          cards, loadMoreVisible, noResultsVisible, loader, passes, load, received,
          loaderCalls, initPhase, fetchCount, lastPub, batches, nextId, userPasses>>

\* ----------------------------------------------------------------- loader
PokeballLoader == [activeRequests |-> 0, visible |-> FALSE]

show(l) == [activeRequests |-> l.activeRequests + 1, visible |-> TRUE]

\* hide_unclamped leaves the counter where the decrement put it
hide_unclamped(l) ==
    [activeRequests |-> l.activeRequests - 1,
     visible |-> IF l.activeRequests - 1 <= 0 THEN FALSE ELSE l.visible]
hide(l) ==
    IF l.activeRequests - 1 <= 0
    THEN [activeRequests |-> 0, visible |-> FALSE]
    ELSE [activeRequests |-> l.activeRequests - 1, visible |-> l.visible]

\* ------------------------------------------------------------ lookup data
\* The `data` field of a category entry is an array or the promise returned
\* by fetch(...).then(...).catch(...).
ArrayData(list) == [kind |-> "array", state |-> "none", val |-> list]
PendingPromise == [kind |-> "promise", state |-> "pending", val |-> <<>>]
FulfilledPromise(list) == [kind |-> "promise", state |-> "fulfilled", val |-> list]
RejectedPromise == [kind |-> "promise", state |-> "rejected", val |-> <<>>]

EmptyMap == [v \in {} |-> 0]

\* What an index request brings back as `result.results`: a list of
\* {name, url} objects, or something that is no list; NoResponse when the
\* request itself failed.
ArrayOf(items) == [kind |-> "array", items |-> items]
Undefined == [kind |-> "undefined"]
ObjectValue == [kind |-> "object"]
StringValue == [kind |-> "string"]
NoResponse == [kind |-> "none"]

results(cat, names) ==
    ArrayOf([i \in DOMAIN names |-> [name |-> names[i], url |-> <<cat, names[i]>>]])

isArray(x) == x.kind = "array"

TypeError == [throws |-> "TypeError"]
NetworkError == [throws |-> "Error"]
Throws(x) == "throws" \in DOMAIN x

\* wholeData.reduce((acc, {name, url}) => { acc[name] = {url, data: []}; return acc }, {})
RECURSIVE reduce(_, _, _)
reduce(items, i, acc) ==
    IF i > Len(items) THEN acc
    ELSE reduce(items, i + 1,
                [n \in DOMAIN acc \cup {items[i].name} |->
                    IF n = items[i].name
                    THEN [url |-> items[i].url, data |-> ArrayData(<<>>)]
                    ELSE acc[n]])

\* `if (!Array.isArray(wholeData)) throw new TypeError(...)`, then the reduce
\* (without the test, `.reduce` of a value that is no array is a TypeError
\* as well); transformStructuredData_unchecked returns the empty table instead
transformStructuredData_unchecked(wholeData) ==
    IF ~isArray(wholeData) THEN EmptyMap ELSE reduce(wholeData.items, 1, EmptyMap)
transformStructuredData(wholeData) ==
    IF ~isArray(wholeData) THEN TypeError ELSE reduce(wholeData.items, 1, EmptyMap)

\* fetchPokemonTypes / Colors / Genders: the request, then the transform;
\* whatever is thrown is logged and thrown again
fetchStructured(w) ==
    IF w = NoResponse THEN NetworkError ELSE transformStructuredData(w)

\* The three maps and the fetch history, threaded through the evaluations.
World == [typeMap |-> typeMap, colorMap |-> colorMap, genderMap |-> genderMap,
          fetchCount |-> fetchCount]

MapOf(S, cat) ==
    CASE cat = "type" -> S.typeMap
      [] cat = "color" -> S.colorMap
      [] cat = "gender" -> S.genderMap

WithData(S, cat, v, d) ==
    CASE cat = "type" -> [S EXCEPT !.typeMap[v].data = d]
      [] cat = "color" -> [S EXCEPT !.colorMap[v].data = d]
      [] cat = "gender" -> [S EXCEPT !.genderMap[v].data = d]

\* `elm.data.length === 0`: true of an empty array; a promise has no length.
\* NeedsFetch_unlessArray fetches whenever no non-empty list is stored.
NeedsFetch_unlessArray(elm) == Len(elm.data.val) = 0
\* NeedsFetch_anyArray fetches whenever an array is stored, empty or not.
NeedsFetch_anyArray(elm) == elm.data.kind = "array"
NeedsFetch(elm) == elm.data.kind = "array" /\ Len(elm.data.val) = 0

\* elm.data = apiService.fetchSpecific...(elm.url).then(...).catch(...)
issueFetch(S, cat, v) ==
    [WithData(S, cat, v, PendingPromise) EXCEPT !.fetchCount[cat][v] = @ + 1]

\* What the .then/.catch chain leaves behind when the request settles:
\* on success the handler stores the list in elm.data and the promise fulfils
\* with it; on failure the catch handler returns [] and elm.data keeps the
\* promise, now fulfilled with [].  fetchChain_noCatch is the chain without
\* its .catch: the promise stays rejected; fetchChain_forgetsFailure puts
\* the empty array back on failure, so that the value is fetched again.
fetchChain_noCatch(cat, v, ok) ==
    IF ok
    THEN [data |-> ArrayData(Members(cat, v)),
          result |-> FulfilledPromise(Members(cat, v))]
    ELSE [data |-> RejectedPromise, result |-> RejectedPromise]
fetchChain_forgetsFailure(cat, v, ok) ==
    IF ok
    THEN [data |-> ArrayData(Members(cat, v)),
          result |-> FulfilledPromise(Members(cat, v))]
    ELSE [data |-> ArrayData(<<>>), result |-> FulfilledPromise(<<>>)]
fetchChain(cat, v, ok) ==
    IF ok
    THEN [data |-> ArrayData(Members(cat, v)),
          result |-> FulfilledPromise(Members(cat, v))]
    ELSE [data |-> FulfilledPromise(<<>>), result |-> FulfilledPromise(<<>>)]

\* ----------------------------------------------- per-entity evaluations
\* One call of checkMatchType / checkMatchColor / checkMatchGender:
\*   st   "wait" (parked on a pending promise), "true", "false", "threw"
\*   k    index of the value whose promise it awaits
\*   fid  number of the fetch it awaits
\*   obs  what its awaits on pending promises delivered
Settled(st, obs) == [st |-> st, k |-> 0, fid |-> 0, obs |-> obs]

\* `if (elm && elm.data.length === 0) elm.data = fetch...`
fetchIfNeeded(S, cat, v) ==
    IF NeedsFetch(MapOf(S, cat)[v]) THEN issueFetch(S, cat, v) ELSE S

RECURSIVE matchLoop(_, _, _, _, _, _)

\* `await elm.data` and the test that follows, d being elm.data
awaitData(S, d, cat, pokemonName, values, k, obs) ==
    IF d.kind = "promise" /\ d.state = "pending"
    THEN [S |-> S,
          ev |-> [st |-> "wait", k |-> k, fid |-> S.fetchCount[cat][values[k]],
                  obs |-> obs]]
    ELSE IF d.kind = "promise" /\ d.state = "rejected"
    THEN [S |-> S, ev |-> Settled("threw", obs)]
    ELSE IF arrayIncludes(d.val, pokemonName)
    THEN [S |-> S, ev |-> Settled("true", obs)]
    ELSE matchLoop(S, cat, pokemonName, values, k + 1, obs)

\* the value's entry after the fetch guard, then the await
lookUp(S, cat, pokemonName, values, k, obs) ==
    awaitData(S, MapOf(S, cat)[values[k]].data, cat, pokemonName, values, k, obs)

\* the body of the `for await` loop from the k-th selected value on
matchLoop(S, cat, pokemonName, values, k, obs) ==
    IF k > Len(values) THEN [S |-> S, ev |-> Settled("false", obs)]
    ELSE IF values[k] \notin DOMAIN MapOf(S, cat)
    THEN [S |-> S, ev |-> Settled("threw", obs)]
    ELSE lookUp(fetchIfNeeded(S, cat, values[k]), cat, pokemonName, values, k, obs)

\* checkMatchType_asksAhead asks for the second type's members before the loop
checkMatchType_asksAhead(S, pokemonName, types) ==
    IF Len(types) = 0 THEN [S |-> S, ev |-> Settled("true", <<>>)]
    ELSE matchLoop(IF Len(types) > 1 /\ types[2] \in DOMAIN S.typeMap
                   THEN fetchIfNeeded(S, "type", types[2]) ELSE S,
                   "type", pokemonName, types, 1, <<>>)
checkMatchType(S, pokemonName, types) ==
    IF Len(types) = 0 THEN [S |-> S, ev |-> Settled("true", <<>>)]
    ELSE matchLoop(S, "type", pokemonName, types, 1, <<>>)

checkMatchColor(S, pokemonName, colors) ==
    IF Len(colors) = 0 THEN [S |-> S, ev |-> Settled("true", <<>>)]
    ELSE matchLoop(S, "color", pokemonName, colors, 1, <<>>)

checkMatchGender(S, pokemonName, gender) ==
    IF gender = "all" THEN [S |-> S, ev |-> Settled("true", <<>>)]
    ELSE matchLoop(S, "gender", pokemonName, <<gender>>, 1, <<>>)

\* the continuation of `await elm.data` once the awaited promise has settled,
\* obs being what the evaluation has been handed so far
\* resumeWith_dropsResult goes on to the next value whatever the promise brought
resumeWith_dropsResult(S, cat, pokemonName, values, k, result, obs) ==
    IF result.state = "rejected"
    THEN [S |-> S, ev |-> Settled("threw", obs)]
    ELSE matchLoop(S, cat, pokemonName, values, k + 1, obs)
resumeWith(S, cat, pokemonName, values, k, result, obs) ==
    IF result.state = "rejected"
    THEN [S |-> S, ev |-> Settled("threw", obs)]
    ELSE IF arrayIncludes(result.val, pokemonName)
    THEN [S |-> S, ev |-> Settled("true", obs)]
    ELSE matchLoop(S, cat, pokemonName, values, k + 1, obs)

resume(S, cat, pokemonName, values, ev, result) ==
    resumeWith(S, cat, pokemonName, values, ev.k, result,
               Append(ev.obs, [val |-> values[ev.k], fid |-> ev.fid,
                               data |-> result.val]))

\* const matchesQuery = query === '' || name...includes(query) || id...includes(query);
\* matchesQuery_nameOnly leaves the id out
matchesQuery_nameOnly(pokemon, query) ==
    \/ query = <<>>
    \/ includes(toLowerCase(pokemon.name), query)
matchesQuery(pokemon, query) ==
    \/ query = <<>>
    \/ includes(toLowerCase(pokemon.name), query)
    \/ includes(toString(pokemon.id), query)

\* the callback of pokemonData.map(async pokemon => ...) up to its await:
\* the three checks are called in this order, each in the world the one
\* before it left
afterGender(q, rt, rc, rg) ==
    [S |-> rg.S, ev |-> [q |-> q, type |-> rt.ev, color |-> rc.ev, gender |-> rg.ev]]

afterColor(q, rt, rc, pokemonName, gender) ==
    afterGender(q, rt, rc, checkMatchGender(rc.S, pokemonName, gender))

afterType(q, rt, pokemonName, colors, gender) ==
    afterColor(q, rt, checkMatchColor(rt.S, pokemonName, colors), pokemonName, gender)

evalPokemon(S, pokemon, query, types, colors, gender) ==
    afterType(matchesQuery(pokemon, query), checkMatchType(S, pokemon.name, types),
              pokemon.name, colors, gender)

\* results of entries lo..mid and mid+1..hi put together
single(r) == [S |-> r.S, ev |-> <<r.ev>>]

joined(a, b) == [ev |-> a.ev \o b.ev, S |-> b.S]

RECURSIVE mapPokemon(_, _, _, _, _, _, _, _)

mapRest(a, data, lo, hi, query, types, colors, gender) ==
    joined(a, mapPokemon(a.S, data, lo, hi, query, types, colors, gender))

\* pokemonData.map over entries lo..hi: the callbacks run in catalog order
\* (the range is halved only to keep the evaluation shallow)
mapPokemon(S, data, lo, hi, query, types, colors, gender) ==
    IF lo > hi THEN [S |-> S, ev |-> <<>>]
    ELSE IF lo = hi
    THEN single(evalPokemon(S, data[lo], query, types, colors, gender))
    ELSE mapRest(mapPokemon(S, data, lo, (lo + hi) \div 2, query, types, colors, gender),
                 data, ((lo + hi) \div 2) + 1, hi, query, types, colors, gender)

\* getSelectedFilters: checked boxes in document order, the checked radio
getSelectedFilters(ct, cc, cg) ==
    [types |-> SelectSeq(TypeOrder, LAMBDA v : v \in ct),
     colors |-> SelectSeq(ColorOrder, LAMBDA v : v \in cc),
     gender |-> cg]

Cats == {"type", "color", "gender"}

ValuesOf(p, cat) ==
    CASE cat = "type" -> p.types
      [] cat = "color" -> p.colors
      [] cat = "gender" -> <<p.gender>>

\* the pass record filterData leaves parked on `await Promise.all(...)`
parked(r, id, fromInit, query, sel) ==
    [S |-> r.S,
     pass |-> [id |-> id, init |-> fromInit, phase |-> "await",
               query |-> query, types |-> sel.types, colors |-> sel.colors,
               gender |-> sel.gender, ev |-> r.ev]]

\* mapSelected_prefetchGender asks for the selected gender's members before the map
mapSelected_prefetchGender(S, id, fromInit, data, query, sel) ==
    parked(mapPokemon(IF sel.gender \in DOMAIN S.genderMap
                      THEN fetchIfNeeded(S, "gender", sel.gender) ELSE S,
                      data, 1, Len(data), query, sel.types, sel.colors, sel.gender),
           id, fromInit, query, sel)
mapSelected(S, id, fromInit, data, query, sel) ==
    parked(mapPokemon(S, data, 1, Len(data), query, sel.types, sel.colors, sel.gender),
           id, fromInit, query, sel)

newPass(S, id, fromInit, data, si, ct, cc, cg) ==
    mapSelected(S, id, fromInit, data, toLowerCase(trim(si)),
                getSelectedFilters(ct, cc, cg))

Waiting(p) ==
    \E i \in DOMAIN p.ev : \E cat \in Cats : p.ev[i][cat].st = "wait"

\* Promise.all rejects as soon as one evaluation has thrown
PassRejected(p) ==
    \E i \in DOMAIN p.ev : \E cat \in Cats : p.ev[i][cat].st = "threw"

\* Promise.all fulfils once every evaluation has returned;
\* PassFulfilled_noneThrew does not wait for the ones still parked
PassFulfilled_noneThrew(p) ==
    \A i \in DOMAIN p.ev : \A cat \in Cats : p.ev[i][cat].st # "threw"
PassFulfilled(p) ==
    \A i \in DOMAIN p.ev : \A cat \in Cats : p.ev[i][cat].st \in {"true", "false"}

\* matchesQuery && matchesType && matchesColor && matchesGender ? pokemon : null;
\* Included_typeOrColor takes type or colour instead of both
Included_typeOrColor(e) ==
    e.q /\ (e.type.st = "true" \/ e.color.st = "true") /\ e.gender.st = "true"
Included(e) ==
    e.q /\ e.type.st = "true" /\ e.color.st = "true" /\ e.gender.st = "true"

\* filteredDataResults.filter(pokemon => pokemon !== null)
filterNotNull(data, ev) ==
    LET kept == SelectSeq([i \in DOMAIN ev |-> i], LAMBDA i : Included(ev[i]))
    IN [n \in DOMAIN kept |-> data[kept[n]]]

PassResult(p) == filterNotNull(pokemonData, p.ev)

\* a continuation of filterData is runnable: the microtask queue is not empty
Runnable ==
    \E j \in DOMAIN passes :
        passes[j].phase = "await" /\ (PassRejected(passes[j]) \/ PassFulfilled(passes[j]))

\* a finished filterData whose evaluations have all returned is garbage;
\* Live_newestOnly also drops every pass but the newest
Live_newestOnly(ps) ==
    SelectSeq(ps, LAMBDA p : (p.phase = "await" \/ Waiting(p))
                             /\ \A i \in DOMAIN ps : ps[i].id <= p.id)
Live(ps) == SelectSeq(ps, LAMBDA p : p.phase = "await" \/ Waiting(p))

\* ------------------------------------------------------------ pagination
\* Array.prototype.slice(b, e); slice_throughEnd takes the entry at e too
slice_throughEnd(a, b, e) == SubSeq(a, b + 1, Min(e + 1, Len(a)))
slice(a, b, e) == SubSeq(a, b + 1, Min(e, Len(a)))

\* const hasMoreData = currentBatchIndex < filteredData.length;
\* hasMoreData_orEqual compares with <=
hasMoreData_orEqual(idx, fd) == idx <= Len(fd)
hasMoreData(idx, fd) == idx < Len(fd)

\* currentBatchIndex += batchSize; advanced_clamped stops at the end of the list
advanced_clamped(idx, fd) == Min(idx + batchSize, Len(fd))
advanced(idx, fd) == idx + batchSize

\* the early return of loadNextBatch: the button is hidden, nothing else is
\* touched; endOfList_showsButton shows it instead
endOfList_showsButton(u) ==
    [u EXCEPT !.loadMoreVisible = TRUE,
              !.batches = Append(@, [len |-> 0, more |-> TRUE])]
endOfList(u) ==
    [u EXCEPT !.loadMoreVisible = FALSE,
              !.batches = Append(@, [len |-> 0, more |-> FALSE])]

\* loadNextBatch over the part of the state it touches
\*   u = [currentBatchIndex, cards, loadMoreVisible, loader, batches]
loadNextBatch(fd, u) ==
    IF u.currentBatchIndex >= Len(fd)
    THEN endOfList(u)
    ELSE LET batch == slice(fd, u.currentBatchIndex, u.currentBatchIndex + batchSize)
             idx == advanced(u.currentBatchIndex, fd)
             more == hasMoreData(idx, fd)
         IN [currentBatchIndex |-> idx,
             cards |-> u.cards \o batch,
             loadMoreVisible |-> more,
             loader |-> hide(show(u.loader)),
             batches |-> Append(u.batches, [len |-> Len(batch), more |-> more])]

\* ------------------------------------------------------------------- Init
NoPub == [id |-> 0, prev |-> 0, query |-> <<>>, types |-> <<>>, colors |-> <<>>,
          gender |-> "all", data |-> <<>>, repeat |-> FALSE]

AllValues(cat) ==
    CASE cat = "type" -> Range(TypeOrder)
      [] cat = "color" -> Range(ColorOrder)
      [] cat = "gender" -> Range(GenderOrder)

Init ==
    /\ pokemonData = <<>>
    /\ filteredData = <<>>
    /\ currentBatchIndex = 0
    /\ typeMap = EmptyMap
    /\ colorMap = EmptyMap
    /\ genderMap = EmptyMap
    /\ searchInput = <<>>
    /\ checkedTypes = {}
    /\ checkedColors = {}
    /\ checkedGender = "all"
    /\ cards = <<>>
    /\ loadMoreVisible = FALSE
    /\ noResultsVisible = FALSE
    /\ loader = PokeballLoader
    /\ passes = <<>>
    /\ load = [pokemon |-> "idle", type |-> "idle", color |-> "idle", gender |-> "idle"]
    /\ received = [cat \in Cats |-> NoResponse]
    /\ loaderCalls = [show |-> 0, hide |-> 0]
    /\ initPhase = "none"
    /\ fetchCount = [cat \in Cats |-> [v \in AllValues(cat) |-> 0]]
    /\ lastPub = NoPub
    /\ batches = <<>>
    /\ nextId = 0
    /\ userPasses = 0

\* ------------------------------------------------------------- filterData
\* filterData up to `await Promise.all(filteredDataPromises)`: r is the world
\* the evaluations left and the pass they belong to
park(r) ==
    /\ loader' = show(loader)
    /\ passes' = Append(passes, r.pass)
    /\ typeMap' = r.S.typeMap
    /\ colorMap' = r.S.colorMap
    /\ genderMap' = r.S.genderMap
    /\ fetchCount' = r.S.fetchCount
    /\ nextId' = nextId + 1

\* filterData run in world S on catalog `data` with the widgets as given
filterData(S, fromInit, data, si, ct, cc, cg) ==
    park(newPass(S, nextId + 1, fromInit, data, si, ct, cc, cg))

\* the page state after `currentBatchIndex = 0; cardsContainer.innerHTML = ''`;
\* clearedPage_keepsOffset empties the container only
clearedPage_keepsOffset ==
    [currentBatchIndex |-> currentBatchIndex, cards |-> <<>>,
     loadMoreVisible |-> loadMoreVisible, loader |-> loader, batches |-> <<>>]
clearedPage ==
    [currentBatchIndex |-> 0, cards |-> <<>>, loadMoreVisible |-> loadMoreVisible,
     loader |-> loader, batches |-> <<>>]

\* `if (hasResults) loadNextBatch(); else loadMoreButton...remove(...)`
firstBatch(fd, u) ==
    IF Len(fd) > 0 THEN loadNextBatch(fd, u) ELSE [u EXCEPT !.loadMoreVisible = FALSE]

\* history: pass p has the selection and the catalog of the last publish
sameAsLast(p) ==
    /\ lastPub.id # 0
    /\ lastPub.data = pokemonData
    /\ <<lastPub.query, lastPub.types, lastPub.colors, lastPub.gender>>
           = <<p.query, p.types, p.colors, p.gender>>

\* the try block and `finally` of pass p with result fd, u being the page
\* state the try block leaves
publish(p, fd, u) ==
    /\ filteredData' = fd
    /\ currentBatchIndex' = u.currentBatchIndex
    /\ cards' = u.cards
    /\ loadMoreVisible' = u.loadMoreVisible
    /\ noResultsVisible' = ~(Len(fd) > 0)
    /\ batches' = u.batches
    /\ loader' = IF p.init THEN hide(hide(u.loader)) ELSE hide(u.loader)
    /\ initPhase' = IF p.init THEN "done" ELSE initPhase
    /\ lastPub' = [id |-> p.id, prev |-> lastPub.id, query |-> p.query,
                   types |-> p.types, colors |-> p.colors, gender |-> p.gender,
                   data |-> pokemonData, repeat |-> sameAsLast(p)]

publishResult(p, fd) == publish(p, fd, firstBatch(fd, clearedPage))

\* filterData from `filteredData = ...` to the end of `finally`;
\* Publish_filtersInPlace also overwrites the catalog with the result
Publish_filtersInPlace(j) ==
    /\ j \in DOMAIN passes
    /\ passes[j].phase = "await"
    /\ PassFulfilled(passes[j])
    /\ publishResult(passes[j], PassResult(passes[j]))
    /\ pokemonData' = PassResult(passes[j])
    /\ passes' = Live([passes EXCEPT ![j].phase = "done"])
    /\ UNCHANGED <<typeMap, colorMap, genderMap, searchInput,
                   checkedTypes, checkedColors, checkedGender, load, received, loaderCalls,
                   fetchCount, nextId, userPasses>>
Publish(j) ==
    /\ j \in DOMAIN passes
    /\ passes[j].phase = "await"
    /\ PassFulfilled(passes[j])
    /\ publishResult(passes[j], PassResult(passes[j]))
    /\ passes' = Live([passes EXCEPT ![j].phase = "done"])
    /\ UNCHANGED <<pokemonData, typeMap, colorMap, genderMap, searchInput,
                   checkedTypes, checkedColors, checkedGender, load, received, loaderCalls,
                   fetchCount, nextId, userPasses>>

\* filterData through `catch` and `finally` when an evaluation threw;
\* Fail_noFinally is the handler without its `finally`, Fail_clearsCards
\* empties the card container in its `catch`, Fail_emptiesResult the
\* Filtered Result
Fail_emptiesResult(j) ==
    /\ j \in DOMAIN passes
    /\ passes[j].phase = "await"
    /\ PassRejected(passes[j])
    /\ noResultsVisible' = TRUE
    /\ filteredData' = <<>>
    /\ loader' = IF passes[j].init THEN hide(hide(loader)) ELSE hide(loader)
    /\ initPhase' = IF passes[j].init THEN "done" ELSE initPhase
    /\ passes' = Live([passes EXCEPT ![j].phase = "done"])
    /\ UNCHANGED <<pokemonData, currentBatchIndex, typeMap,
                   colorMap, genderMap, searchInput, checkedTypes,
                   checkedColors, checkedGender, cards, loadMoreVisible, load,
                   received, loaderCalls, fetchCount, lastPub, batches, nextId, userPasses>>
Fail_clearsCards(j) ==
    /\ j \in DOMAIN passes
    /\ passes[j].phase = "await"
    /\ PassRejected(passes[j])
    /\ noResultsVisible' = TRUE
    /\ cards' = <<>>
    /\ loader' = IF passes[j].init THEN hide(hide(loader)) ELSE hide(loader)
    /\ initPhase' = IF passes[j].init THEN "done" ELSE initPhase
    /\ passes' = Live([passes EXCEPT ![j].phase = "done"])
    /\ UNCHANGED <<pokemonData, filteredData, currentBatchIndex, typeMap,
                   colorMap, genderMap, searchInput, checkedTypes,
                   checkedColors, checkedGender, loadMoreVisible, load, received, loaderCalls,
                   fetchCount, lastPub, batches, nextId, userPasses>>
\* Fail_hidesTwice gives back two loader requests
Fail_hidesTwice(j) ==
    /\ j \in DOMAIN passes
    /\ passes[j].phase = "await"
    /\ PassRejected(passes[j])
    /\ noResultsVisible' = TRUE
    /\ loader' = hide(hide(loader))
    /\ initPhase' = IF passes[j].init THEN "done" ELSE initPhase
    /\ passes' = Live([passes EXCEPT ![j].phase = "done"])
    /\ UNCHANGED <<pokemonData, filteredData, currentBatchIndex, typeMap,
                   colorMap, genderMap, searchInput, checkedTypes,
                   checkedColors, checkedGender, cards, loadMoreVisible, load, received, loaderCalls,
                   fetchCount, lastPub, batches, nextId, userPasses>>
Fail_noFinally(j) ==
    /\ j \in DOMAIN passes
    /\ passes[j].phase = "await"
    /\ PassRejected(passes[j])
    /\ noResultsVisible' = TRUE
    /\ initPhase' = IF passes[j].init THEN "done" ELSE initPhase
    /\ passes' = Live([passes EXCEPT ![j].phase = "done"])
    /\ UNCHANGED <<pokemonData, filteredData, currentBatchIndex, typeMap,
                   colorMap, genderMap, searchInput, checkedTypes,
                   checkedColors, checkedGender, cards, loadMoreVisible, load, received, loaderCalls,
                   fetchCount, lastPub, batches, nextId, userPasses, loader>>
Fail(j) ==
    /\ j \in DOMAIN passes
    /\ passes[j].phase = "await"
    /\ PassRejected(passes[j])
    /\ noResultsVisible' = TRUE
    /\ loader' = IF passes[j].init THEN hide(hide(loader)) ELSE hide(loader)
    /\ initPhase' = IF passes[j].init THEN "done" ELSE initPhase
    /\ passes' = Live([passes EXCEPT ![j].phase = "done"])
    /\ UNCHANGED <<pokemonData, filteredData, currentBatchIndex, typeMap,
                   colorMap, genderMap, searchInput, checkedTypes,
                   checkedColors, checkedGender, cards, loadMoreVisible, load, received, loaderCalls,
                   fetchCount, lastPub, batches, nextId, userPasses>>

\* ------------------------------------------------------------ user events
\* the listeners are registered before the initial load starts; events that
\* arrive while the four initial requests are in flight are the early ones
UserReady ==
    /\ initPhase # "none"
    /\ ~Runnable
    /\ userPasses < MaxPasses
    /\ (initPhase = "loading" => userPasses < MaxEarlyPasses)

UserPass(si, ct, cc, cg) ==
    /\ filterData(World, FALSE, pokemonData, si, ct, cc, cg)
    /\ searchInput' = si
    /\ checkedTypes' = ct
    /\ checkedColors' = cc
    /\ checkedGender' = cg
    /\ userPasses' = userPasses + 1
    /\ UNCHANGED <<pokemonData, filteredData, currentBatchIndex, cards,
                   loadMoreVisible, noResultsVisible, load, received, loaderCalls, initPhase,
                   lastPub, batches>>

Toggle(set, v) == IF v \in set THEN set \ {v} ELSE set \cup {v}

\* `change` on the sidebar fieldset
ChangeType(v) ==
    /\ UserReady
    /\ UserPass(searchInput, Toggle(checkedTypes, v), checkedColors, checkedGender)

ChangeColor(v) ==
    /\ UserReady
    /\ UserPass(searchInput, checkedTypes, Toggle(checkedColors, v), checkedGender)

ChangeGender(g) ==
    /\ UserReady
    /\ g # checkedGender
    /\ UserPass(searchInput, checkedTypes, checkedColors, g)

\* `input` on the search box: filterDataFromSearchBar
InputSearch(q) ==
    /\ UserReady
    /\ q # searchInput
    /\ UserPass(q, checkedTypes, checkedColors, checkedGender)

resetSearchBoxFilter ==
    /\ UserReady
    /\ trim(searchInput) # <<>>
    /\ UserPass(<<>>, checkedTypes, checkedColors, checkedGender)

\* resetTypeFilter(); resetColorFilter(); resetGenderFilter(); await filterData();
\* resetAllFilters_keepsColors leaves resetColorFilter out
resetAllFilters_keepsColors ==
    /\ UserReady
    /\ UserPass(searchInput, {}, checkedColors, "all")
resetAllFilters ==
    /\ UserReady
    /\ UserPass(searchInput, {}, {}, "all")

\* calls of loadNextBatch since the last publish that rendered nothing
IdleClicks(b) == Cardinality({i \in DOMAIN b : b[i].len = 0})

\* the page state loadNextBatch starts from
page ==
    [currentBatchIndex |-> currentBatchIndex, cards |-> cards,
     loadMoreVisible |-> loadMoreVisible, loader |-> loader, batches |-> batches]

turnPage(u) ==
    /\ currentBatchIndex' = u.currentBatchIndex
    /\ cards' = u.cards
    /\ loadMoreVisible' = u.loadMoreVisible
    /\ loader' = u.loader
    /\ batches' = u.batches

\* `click` on the load-more button
LoadMoreClick ==
    /\ initPhase # "none"
    /\ ~Runnable
    /\ (currentBatchIndex >= Len(filteredData) => IdleClicks(batches) < MaxIdleClicks)
    /\ turnPage(loadNextBatch(filteredData, page))
    /\ UNCHANGED <<pokemonData, filteredData, typeMap, colorMap, genderMap,
                   searchInput, checkedTypes, checkedColors, checkedGender,
                   noResultsVisible, passes, load, received, loaderCalls, initPhase, fetchCount,
                   lastPub, nextId, userPasses>>

\* ---------------------------------------------------------- member fetches
\* the reactions of one settled promise run in the order they were registered:
\* passes in the order they were started, entities in catalog order
resumed(r, e, cat) == [S |-> r.S, ev |-> [e EXCEPT ![cat] = r.ev]]

resumeEntity(S, p, i, cat, v, result) ==
    IF p.ev[i][cat].st = "wait" /\ ValuesOf(p, cat)[p.ev[i][cat].k] = v
    THEN resumed(resume(S, cat, pokemonData[i].name, ValuesOf(p, cat),
                        p.ev[i][cat], result),
                 p.ev[i], cat)
    ELSE [S |-> S, ev |-> p.ev[i]]

RECURSIVE resumeEntities(_, _, _, _, _, _, _)

resumeRest(a, p, lo, hi, cat, v, result) ==
    joined(a, resumeEntities(a.S, p, lo, hi, cat, v, result))

resumeEntities(S, p, lo, hi, cat, v, result) ==
    IF lo > hi THEN [S |-> S, ev |-> <<>>]
    ELSE IF lo = hi
    THEN single(resumeEntity(S, p, lo, cat, v, result))
    ELSE resumeRest(resumeEntities(S, p, lo, (lo + hi) \div 2, cat, v, result),
                    p, ((lo + hi) \div 2) + 1, hi, cat, v, result)

RECURSIVE resumePasses(_, _, _, _, _, _, _)

resumeNext(r, ps, j, cat, v, result, acc) ==
    resumePasses(r.S, ps, j + 1, cat, v, result,
                 Append(acc, [ps[j] EXCEPT !.ev = r.ev]))

resumePasses(S, ps, j, cat, v, result, acc) ==
    IF j > Len(ps) THEN [S |-> S, passes |-> acc]
    ELSE resumeNext(resumeEntities(S, ps[j], 1, Len(ps[j].ev), cat, v, result),
                    ps, j, cat, v, result, acc)

\* the state the reactions leave
settled(r) ==
    /\ typeMap' = r.S.typeMap
    /\ colorMap' = r.S.colorMap
    /\ genderMap' = r.S.genderMap
    /\ fetchCount' = r.S.fetchCount
    /\ passes' = Live(r.passes)

\* ch is what the .then/.catch chain of the request leaves behind
settleWith(cat, v, ch) ==
    settled(resumePasses(WithData(World, cat, v, ch.data), passes, 1, cat, v,
                         ch.result, <<>>))

\* the request behind the pending promise of value v settles
FetchSettle(cat, v, ok) ==
    /\ ~Runnable
    /\ v \in DOMAIN MapOf(World, cat)
    /\ MapOf(World, cat)[v].data = PendingPromise
    /\ settleWith(cat, v, fetchChain(cat, v, ok))
    /\ UNCHANGED <<pokemonData, filteredData, currentBatchIndex, searchInput,
                   checkedTypes, checkedColors, checkedGender, cards,
                   loadMoreVisible, noResultsVisible, loader, load, received, loaderCalls, initPhase,
                   lastPub, batches, nextId, userPasses>>

\* ------------------------------------------------------------ initial load
\* DOMContentLoaded: initializeComponent -> loadInitialData up to
\* `await Promise.all([getPokemonData(), getPokemonTypes(), ...])`
loadInitialData ==
    /\ initPhase = "none"
    /\ initPhase' = "loading"
    /\ loader' = show(loader)
    /\ load' = [pokemon |-> "pending", type |-> "pending", color |-> "pending",
                gender |-> "pending"]
    /\ UNCHANGED <<received, loaderCalls, pokemonData, filteredData, currentBatchIndex, typeMap,
                   colorMap, genderMap, searchInput, checkedTypes,
                   checkedColors, checkedGender, cards, loadMoreVisible,
                   noResultsVisible, passes, fetchCount, lastPub, batches,
                   nextId, userPasses>>

\* One of the four requests settles; S and data are the maps and the catalog
\* after the getter's assignment.  loadInitialData goes on in the same drain:
\* to catch/finally on the first failure, to `await filterData()` once all four
\* getters have returned.
LoadSettle(r, ok, S, data) ==
    /\ ~Runnable
    /\ load[r] = "pending"
    /\ load' = [load EXCEPT ![r] = IF ok THEN "ok" ELSE "failed"]
    /\ pokemonData' = data
    /\ IF initPhase = "loading" /\ ok /\ \A x \in DOMAIN load : x # r => load[x] = "ok"
       THEN /\ filterData(S, TRUE, data, searchInput, checkedTypes,
                          checkedColors, checkedGender)
            /\ initPhase' = "filtering"
       ELSE /\ typeMap' = S.typeMap
            /\ colorMap' = S.colorMap
            /\ genderMap' = S.genderMap
            /\ IF initPhase = "loading" /\ ~ok
               THEN loader' = hide(loader) /\ initPhase' = "failed"
               ELSE UNCHANGED <<loader, initPhase>>
            /\ UNCHANGED <<passes, fetchCount, nextId>>
    /\ UNCHANGED <<filteredData, currentBatchIndex, searchInput, checkedTypes,
                   checkedColors, checkedGender, cards, loadMoreVisible,
                   noResultsVisible, lastPub, batches, userPasses>>

\* getPokemonData: pokemonData.push(...await apiService.fetchPokemonData())
getPokemonData(ok, catalog) ==
    /\ LoadSettle("pokemon", ok, World, IF ok THEN pokemonData \o catalog ELSE pokemonData)
    /\ UNCHANGED <<received, loaderCalls>>

\* world S with the table of category cat replaced by t
WithMap(S, cat, t) ==
    CASE cat = "type" -> [S EXCEPT !.typeMap = t]
      [] cat = "color" -> [S EXCEPT !.colorMap = t]
      [] cat = "gender" -> [S EXCEPT !.genderMap = t]

\* a getter of an index whose response carried w, t being what
\* apiService.fetchPokemon...() returned or threw
getIndex(cat, w, t) ==
    /\ LoadSettle(cat, ~Throws(t), IF Throws(t) THEN World ELSE WithMap(World, cat, t),
                  pokemonData)
    /\ received' = [received EXCEPT ![cat] = w]
    /\ UNCHANGED loaderCalls

\* getPokemonTypes: typeMap = new Map(Object.entries(await ...))
getPokemonTypesOf(w) == getIndex("type", w, fetchStructured(w))

getPokemonColorsOf(w) == getIndex("color", w, fetchStructured(w))

getPokemonGendersOf(w) == getIndex("gender", w, fetchStructured(w))

\* the getters with the index as the API serves it, or a failed request
getPokemonTypes(ok) ==
    getPokemonTypesOf(IF ok THEN results("type", TypeOrder) ELSE NoResponse)

getPokemonColors(ok) ==
    getPokemonColorsOf(IF ok THEN results("color", ColorOrder) ELSE NoResponse)

getPokemonGenders(ok) ==
    getPokemonGendersOf(IF ok THEN results("gender", GenderOrder) ELSE NoResponse)

\* --------------------------------------------------------- specifications
SmallCatalogs == {<<>>, SmallCatalog}
LongCatalogs == {LongCatalog(n) : n \in 0..MaxCatalog}

\* The filter engine over the scenario catalog: the four initial requests
\* succeed, in any order, with user events in between.
Next ==
    \/ loadInitialData
    \/ \E c \in SmallCatalogs : getPokemonData(TRUE, c)
    \/ getPokemonTypes(TRUE)
    \/ getPokemonColors(TRUE)
    \/ getPokemonGenders(TRUE)
    \/ \E v \in Range(TypeOrder) : ChangeType(v)
    \/ \E v \in Range(ColorOrder) : ChangeColor(v)
    \/ \E g \in {"all"} \cup Range(GenderOrder) : ChangeGender(g)
    \/ \E q \in Queries : InputSearch(q)
    \/ resetSearchBoxFilter
    \/ resetAllFilters
    \/ \E cat \in Cats : \E v \in AllValues(cat) : \E ok \in BOOLEAN : FetchSettle(cat, v, ok)
    \/ \E j \in DOMAIN passes : Publish(j)
    \/ \E j \in DOMAIN passes : Fail(j)

Spec == Init /\ [][Next]_vars

\* The search box and the load-more button over catalogs of every length.
PageInputSearch(q) == userPasses < MaxPagePasses /\ InputSearch(q)

NextPage ==
    \/ loadInitialData
    \/ \E c \in LongCatalogs : getPokemonData(TRUE, c)
    \/ getPokemonTypes(TRUE)
    \/ getPokemonColors(TRUE)
    \/ getPokemonGenders(TRUE)
    \/ \E q \in PageQueries : PageInputSearch(q)
    \/ LoadMoreClick
    \/ \E j \in DOMAIN passes : Publish(j)

SpecPage == Init /\ [][NextPage]_vars

\* The initial load with requests that may fail, and the search box and one
\* type box for the user.
NextLoad ==
    \/ loadInitialData
    \/ \E ok \in BOOLEAN : getPokemonData(ok, SmallCatalog)
    \/ \E ok \in BOOLEAN : getPokemonTypes(ok)
    \/ \E ok \in BOOLEAN : getPokemonColors(ok)
    \/ \E ok \in BOOLEAN : getPokemonGenders(ok)
    \/ \E v \in Range(TypeOrder) : ChangeType(v)
    \/ \E q \in Queries : InputSearch(q)
    \/ \E cat \in Cats : \E v \in AllValues(cat) : FetchSettle(cat, v, TRUE)
    \/ \E j \in DOMAIN passes : Publish(j)
    \/ \E j \in DOMAIN passes : Fail(j)

SpecLoad == Init /\ [][NextLoad]_vars

\* Boxes that are only ever checked by hand and cleared by reset-all.
CheckType(v) == v \notin checkedTypes /\ ChangeType(v)

CheckColor(v) == v \notin checkedColors /\ ChangeColor(v)

NextReset ==
    \/ loadInitialData
    \/ getPokemonData(TRUE, SmallCatalog)
    \/ getPokemonTypes(TRUE)
    \/ getPokemonColors(TRUE)
    \/ getPokemonGenders(TRUE)
    \/ \E v \in Range(TypeOrder) : CheckType(v)
    \/ \E v \in Range(ColorOrder) : CheckColor(v)
    \/ \E g \in Range(GenderOrder) : ChangeGender(g)
    \/ \E q \in Queries : InputSearch(q)
    \/ resetAllFilters
    \/ \E cat \in Cats : \E v \in AllValues(cat) : FetchSettle(cat, v, TRUE)
    \/ \E j \in DOMAIN passes : Publish(j)
    \/ \E j \in DOMAIN passes : Fail(j)

SpecReset == Init /\ [][NextReset]_vars

\* Type and colour boxes with a type index that may fail to load; every
\* member request that was issued settles, and a continuation of filterData
\* that can run does run.  A request can settle exactly when its promise is
\* pending and the microtask queue is empty, and settling always replaces
\* the pending promise: the weak fairness of FetchSettle is written with that
\* enabling condition.
CanSettle(cat, v) ==
    /\ ~Runnable
    /\ v \in DOMAIN MapOf(World, cat)
    /\ MapOf(World, cat)[v].data = PendingPromise

NextSettling ==
    \/ loadInitialData
    \/ getPokemonData(TRUE, SmallCatalog)
    \/ \E ok \in BOOLEAN : getPokemonTypes(ok)
    \/ getPokemonColors(TRUE)
    \/ getPokemonGenders(TRUE)
    \/ ChangeType("fire")
    \/ \E v \in Range(ColorOrder) : ChangeColor(v)
    \/ \E cat \in Cats : \E v \in AllValues(cat) : \E ok \in BOOLEAN : FetchSettle(cat, v, ok)
    \/ \E j \in DOMAIN passes : Publish(j)
    \/ \E j \in DOMAIN passes : Fail(j)

SpecSettling ==
    /\ Init
    /\ [][NextSettling]_vars
    /\ \A cat \in Cats : \A v \in AllValues(cat) :
          \/ []<>~CanSettle(cat, v)
          \/ []<><<\E ok \in BOOLEAN : FetchSettle(cat, v, ok)>>_vars
    /\ WF_vars(\E j \in 1..(MaxPasses + 1) : Publish(j))
    /\ WF_vars(\E j \in 1..(MaxPasses + 1) : Fail(j))

\* The three indexes answered with lists of at most MaxNames entries or with
\* something that is no list, then the fire box.
Lists(S, n) == UNION {[1..k -> S] : k \in 0..n}

Responses(cat) ==
    {Undefined, ObjectValue, StringValue}
    \cup {results(cat, names) : names \in Lists(AllValues(cat), MaxNames)}

NextIndex ==
    \/ loadInitialData
    \/ getPokemonData(TRUE, SmallCatalog)
    \/ \E w \in Responses("type") : getPokemonTypesOf(w)
    \/ \E w \in Responses("color") : getPokemonColorsOf(w)
    \/ \E w \in Responses("gender") : getPokemonGendersOf(w)
    \/ ChangeType("fire")
    \/ \E cat \in Cats : \E v \in AllValues(cat) : FetchSettle(cat, v, TRUE)
    \/ \E j \in DOMAIN passes : Publish(j)
    \/ \E j \in DOMAIN passes : Fail(j)

SpecIndex == Init /\ [][NextIndex]_vars

\* Every kind of event over a catalog of more than two batches: the type
\* index may fail to load, the fire box, the search box, reset-all and the
\* load-more button, with member requests that succeed or fail.
NextClicks ==
    \/ loadInitialData
    \/ getPokemonData(TRUE, LongCatalog(MaxCatalog))
    \/ \E ok \in BOOLEAN : getPokemonTypes(ok)
    \/ getPokemonColors(TRUE)
    \/ getPokemonGenders(TRUE)
    \/ ChangeType("fire")
    \/ \E q \in PageQueries : InputSearch(q)
    \/ resetAllFilters
    \/ LoadMoreClick
    \/ \E cat \in Cats : \E v \in AllValues(cat) : \E ok \in BOOLEAN : FetchSettle(cat, v, ok)
    \/ \E j \in DOMAIN passes : Publish(j)
    \/ \E j \in DOMAIN passes : Fail(j)

SpecClicks == Init /\ [][NextClicks]_vars

\* The search box alone over the scenario catalog.
NextText ==
    \/ loadInitialData
    \/ getPokemonData(TRUE, SmallCatalog)
    \/ getPokemonTypes(TRUE)
    \/ getPokemonColors(TRUE)
    \/ getPokemonGenders(TRUE)
    \/ \E q \in TextQueries : InputSearch(q)
    \/ resetSearchBoxFilter
    \/ \E j \in DOMAIN passes : Publish(j)

SpecText == Init /\ [][NextText]_vars

\* Type and colour boxes over the scenario catalog or a catalog of fire
\* entities only; member requests succeed or fail.
OrderCatalogs == {SmallCatalog, FireCatalog}

NextOrder ==
    \/ loadInitialData
    \/ \E c \in OrderCatalogs : getPokemonData(TRUE, c)
    \/ getPokemonTypes(TRUE)
    \/ getPokemonColors(TRUE)
    \/ getPokemonGenders(TRUE)
    \/ \E v \in Range(TypeOrder) : ChangeType(v)
    \/ \E v \in Range(ColorOrder) : ChangeColor(v)
    \/ \E cat \in Cats : \E v \in AllValues(cat) : \E ok \in BOOLEAN : FetchSettle(cat, v, ok)
    \/ \E j \in DOMAIN passes : Publish(j)
    \/ \E j \in DOMAIN passes : Fail(j)

SpecOrder == Init /\ [][NextOrder]_vars

\* The loader element on its own: show() and hide() called in any order, at
\* most MaxCalls times each.
callShow ==
    /\ loaderCalls.show < MaxCalls
    /\ loader' = show(loader)
    /\ loaderCalls' = [loaderCalls EXCEPT !.show = @ + 1]
    /\ UNCHANGED <<pokemonData, filteredData, currentBatchIndex, typeMap, colorMap,
                   genderMap, searchInput, checkedTypes, checkedColors,
                   checkedGender, cards, loadMoreVisible, noResultsVisible, passes,
                   load, received, initPhase, fetchCount, lastPub, batches, nextId,
                   userPasses>>

callHide ==
    /\ loaderCalls.hide < MaxCalls
    /\ loader' = hide(loader)
    /\ loaderCalls' = [loaderCalls EXCEPT !.hide = @ + 1]
    /\ UNCHANGED <<pokemonData, filteredData, currentBatchIndex, typeMap, colorMap,
                   genderMap, searchInput, checkedTypes, checkedColors,
                   checkedGender, cards, loadMoreVisible, noResultsVisible, passes,
                   load, received, initPhase, fetchCount, lastPub, batches, nextId,
                   userPasses>>

NextLoader ==
    \/ callShow
    \/ callHide

SpecLoader == Init /\ [][NextLoader]_vars

\* ------------------------------------------------------------- properties
\* the member list the lookup of value v has resolved to in world S
ResolvedList(S, cat, v) ==
    IF v \notin DOMAIN MapOf(S, cat) THEN <<>>
    ELSE LET d == MapOf(S, cat)[v].data
         IN IF d.kind = "array" \/ d.state = "fulfilled" THEN d.val ELSE <<>>

MemberOfAny(S, cat, values, name) ==
    \E k \in DOMAIN values :
        LET list == ResolvedList(S, cat, values[k])
        IN \E m \in DOMAIN list : list[m] = name

\* the four predicates of a selection sel = [query, types, colors, gender]
Satisfies(S, e, sel) ==
    /\ \/ sel.query = <<>>
       \/ includes(toLowerCase(e.name), sel.query)
       \/ includes(toString(e.id), sel.query)
    /\ sel.types = <<>> \/ MemberOfAny(S, "type", sel.types, e.name)
    /\ sel.colors = <<>> \/ MemberOfAny(S, "color", sel.colors, e.name)
    /\ sel.gender = "all" \/ MemberOfAny(S, "gender", <<sel.gender>>, e.name)

PublishStep == lastPub'.id # lastPub.id

\* C1: the Filtered Result a pass publishes is exactly the sub-sequence of the
\* catalog, in catalog order, of the entities that satisfy the text, type,
\* colour and gender predicates against the resolved member lists.
FilteredIsExactSubsequence ==
    [][PublishStep =>
          LET S == World'
              sel == lastPub'
          IN filteredData' = SelectSeq(pokemonData', LAMBDA e : Satisfies(S, e, sel))]_vars

\* C1 witness: "fire" resolved to [charmander, vulpix] and the pass that
\* selected it published charmander alone out of the three-entry catalog.
FireSelectionPublished ==
    /\ pokemonData = SmallCatalog
    /\ lastPub.types = <<"fire">>
    /\ lastPub.query = <<>>
    /\ "fire" \in DOMAIN typeMap
    /\ typeMap["fire"].data = ArrayData(<<charmander, vulpix>>)
    /\ filteredData = <<Pokemon(4, charmander)>>

OnlySpaces(s) == \A i \in DOMAIN s : s[i] = " "

\* a filterData call starts in this step with every filter cleared
ClearedPassStarts ==
    /\ nextId' # nextId
    /\ OnlySpaces(searchInput')
    /\ checkedTypes' = {}
    /\ checkedColors' = {}
    /\ checkedGender' = "all"

\* C2: a pass started with all filters cleared (query empty after trimming, no
\* type, no colour, gender "all") issues no member fetch, keeps every catalog
\* entity, and publishes the whole catalog in catalog order.
ClearedFiltersGiveCatalog ==
    [][/\ ClearedPassStarts =>
            /\ fetchCount' = fetchCount
            /\ LET p == passes'[Len(passes')]
               IN /\ Len(p.ev) = Len(pokemonData')
                  /\ \A i \in DOMAIN p.ev :
                        /\ p.ev[i].q
                        /\ \A cat \in Cats : p.ev[i][cat].st = "true"
       /\ (/\ PublishStep
           /\ lastPub'.query = <<>>
           /\ lastPub'.types = <<>>
           /\ lastPub'.colors = <<>>
           /\ lastPub'.gender = "all") =>
            /\ filteredData' = pokemonData'
            /\ fetchCount' = fetchCount]_vars

\* C2 witness: the search box holds a blank, nothing else is selected, the
\* pass it started is the last one published and the result is the catalog;
\* no fetch was ever issued.
BlankQueryPublishedCatalog ==
    /\ searchInput = <<" ">>
    /\ checkedTypes = {} /\ checkedColors = {} /\ checkedGender = "all"
    /\ lastPub.id = nextId
    /\ userPasses > 0
    /\ pokemonData = SmallCatalog
    /\ filteredData = SmallCatalog
    /\ \A cat \in Cats : \A v \in AllValues(cat) : fetchCount[cat][v] = 0

\* C3: over any sequence of passes and whatever the fetch returns, at most one
\* member fetch is ever issued for a category value.
FetchedAtMostOnce ==
    \A cat \in Cats : \A v \in AllValues(cat) : fetchCount[cat][v] <= 1

\* the evaluations (pass, entity) parked on the promise of value v in passes ps
WaitersOn(ps, cat, v) ==
    {w \in {<<j, i>> : j \in DOMAIN ps, i \in 1..MaxCatalog} :
        /\ w[2] \in DOMAIN ps[w[1]].ev
        /\ ps[w[1]].ev[w[2]][cat].st = "wait"
        /\ ValuesOf(ps[w[1]], cat)[ps[w[1]].ev[w[2]][cat].k] = v}

\* what the evaluations in passes ps were handed by fetch number fid of value v
ObservedFrom(ps, cat, v, fid) ==
    {o \in UNION {UNION {Range(ps[j].ev[i][cat].obs) : i \in DOMAIN ps[j].ev} :
                     j \in DOMAIN ps} :
        o.val = v /\ o.fid = fid}

\* C4: while the fetch of a value is in flight, every evaluation of that value,
\* of any entity in any pass, awaits that one fetch and no further fetch is
\* issued for it; all evaluations served by one fetch observe the same list.
OneFetchServesAllWaiters ==
    [][\A cat \in Cats : \A v \in AllValues(cat) :
          /\ fetchCount'[cat][v] \in {fetchCount[cat][v], fetchCount[cat][v] + 1}
          /\ (v \in DOMAIN MapOf(World, cat) /\ MapOf(World, cat)[v].data = PendingPromise)
                => fetchCount'[cat][v] = fetchCount[cat][v]
          /\ WaitersOn(passes', cat, v) # {} =>
                /\ MapOf(World', cat)[v].data = PendingPromise
                /\ \A w \in WaitersOn(passes', cat, v) :
                      passes'[w[1]].ev[w[2]][cat].fid = fetchCount'[cat][v]
          /\ \A fid \in 1..fetchCount'[cat][v] :
                Cardinality({o.data : o \in ObservedFrom(passes', cat, v, fid)}) <= 1]_vars

\* C4 witness: the only fetch of "fire" has settled and handed its list to
\* evaluations of several entities in two overlapping passes.
TwoPassesServedByOneFetch ==
    /\ fetchCount["type"]["fire"] = 1
    /\ \E j1, j2 \in DOMAIN passes :
          /\ j1 # j2
          /\ \A j \in {j1, j2} :
                /\ Cardinality({i \in DOMAIN passes[j].ev :
                       \E o \in Range(passes[j].ev[i]["type"].obs) :
                           o = [val |-> "fire", fid |-> 1,
                                data |-> <<charmander, vulpix>>]}) >= 2

\* the request of value v fails in this step
FetchFails(cat, v) ==
    /\ v \in DOMAIN MapOf(World, cat)
    /\ MapOf(World, cat)[v].data = PendingPromise
    /\ MapOf(World', cat)[v].data.kind = "promise"
    /\ MapOf(World', cat)[v].data.state # "pending"

FetchFailed(S, cat, v) ==
    /\ v \in DOMAIN MapOf(S, cat)
    /\ MapOf(S, cat)[v].data.kind = "promise"
    /\ MapOf(S, cat)[v].data.state # "pending"

\* C5: a failed member fetch resolves to the empty list; no evaluation that
\* awaited it throws, so the pass is not rejected by it, and a pass whose
\* selected gender failed to load publishes the empty Filtered Result.
FailedFetchIsEmptyMembership ==
    [][/\ \A cat \in Cats : \A v \in AllValues(cat) :
            FetchFails(cat, v) =>
                /\ ResolvedList(World', cat, v) = <<>>
                /\ MapOf(World', cat)[v].data.state = "fulfilled"
                /\ \A w \in WaitersOn(passes, cat, v) :
                      \A j \in DOMAIN passes' :
                          passes'[j].id = passes[w[1]].id =>
                              LET e == passes'[j].ev[w[2]][cat]
                              IN /\ e.st # "threw"
                                 /\ e.obs[Len(e.obs)].data = <<>>
       /\ (/\ PublishStep
           /\ lastPub'.gender # "all"
           /\ FetchFailed(World', "gender", lastPub'.gender)) =>
               /\ filteredData' = <<>>
               /\ noResultsVisible']_vars

\* C5 witness: only "female" is selected, its one fetch failed, and the pass
\* published an empty Filtered Result over the three-entry catalog.
FailedGenderPublishedEmpty ==
    /\ pokemonData = SmallCatalog
    /\ lastPub.gender = "female"
    /\ lastPub.types = <<>> /\ lastPub.colors = <<>> /\ lastPub.query = <<>>
    /\ fetchCount["gender"]["female"] = 1
    /\ FetchFailed(World, "gender", "female")
    /\ filteredData = <<>>
    /\ passes = <<>>

\* C6: when a pass starts over a non-empty catalog with a value selected whose
\* earlier fetch failed, a new fetch is issued for that value.
FailedFetchIsRetried ==
    [][\A cat \in Cats : \A v \in AllValues(cat) :
          (/\ nextId' # nextId
           /\ pokemonData' # <<>>
           /\ LET p == passes'[Len(passes')]
              IN ValuesOf(p, cat) # <<>> /\ ValuesOf(p, cat)[1] = v
           /\ FetchFailed(World, cat, v))
          => fetchCount'[cat][v] = fetchCount[cat][v] + 1]_vars

AllSettled(p) ==
    \A i \in DOMAIN p.ev : \A cat \in Cats : p.ev[i][cat].st \in {"true", "false"}

\* the catalog entries pass p keeps, from the outcome of every evaluation
CompleteResult(data, p) ==
    LET keep(i) == p.ev[i].q /\ \A cat \in Cats : p.ev[i][cat].st = "true"
        idx == SelectSeq([i \in DOMAIN p.ev |-> i], keep)
    IN [n \in DOMAIN idx |-> data[idx[n]]]

\* C7: the Filtered Result changes only by being replaced, in one step, with
\* the complete result of one pass all of whose evaluations have settled; a
\* pass that ends in an error leaves it untouched.
FilteredReplacedAtomically ==
    [][/\ (filteredData' # filteredData \/ PublishStep) =>
             \E j \in DOMAIN passes :
                 /\ passes[j].id = lastPub'.id
                 /\ passes[j].phase = "await"
                 /\ AllSettled(passes[j])
                 /\ Len(passes[j].ev) = Len(pokemonData)
                 /\ filteredData' = CompleteResult(pokemonData, passes[j])
       /\ ~PublishStep => filteredData' = filteredData]_vars

\* C7 witness: a second result has been published, for "fire"; a later pass
\* has part of its evaluations settled and part still waiting, and the
\* Filtered Result is still the complete earlier result.
PartialPassLeavesResultWhole ==
    /\ lastPub.prev # 0
    /\ lastPub.types = <<"fire">>
    /\ pokemonData = SmallCatalog
    /\ filteredData = <<Pokemon(4, charmander)>>
    /\ \E j \in DOMAIN passes :
          /\ passes[j].phase = "await"
          /\ passes[j].id > lastPub.id
          /\ \E i \in DOMAIN passes[j].ev : passes[j].ev[i]["type"].st = "wait"
          /\ \E i \in DOMAIN passes[j].ev : passes[j].ev[i]["type"].st = "true"

\* C8: a pass parked on its evaluations is never cancelled: in every step it
\* stays parked, or publishes its own complete result (whatever newer pass
\* published before it), or ends because one of its evaluations threw.
PassNeverCancelled ==
    [][\A j \in DOMAIN passes :
          passes[j].phase = "await" =>
              \/ \E n \in DOMAIN passes' :
                    passes'[n].id = passes[j].id /\ passes'[n].phase = "await"
              \/ /\ lastPub'.id = passes[j].id
                 /\ lastPub'.prev = lastPub.id
                 /\ filteredData' = CompleteResult(pokemonData, passes[j])
              \/ \E i \in DOMAIN passes[j].ev : \E cat \in Cats :
                    passes[j].ev[i][cat].st = "threw"]_vars

\* C8 witness: no pass is in flight; the pass published last was invoked before
\* the one published before it, and its result is not what the widgets select.
StaleResultWon ==
    /\ passes = <<>>
    /\ lastPub.prev > lastPub.id
    /\ lastPub.id > 0
    /\ lastPub.types # getSelectedFilters(checkedTypes, checkedColors, checkedGender).types
    /\ pokemonData = SmallCatalog
    /\ filteredData # SelectSeq(pokemonData,
           LAMBDA e : Satisfies(World, e,
               [query |-> toLowerCase(trim(searchInput)),
                types |-> getSelectedFilters(checkedTypes, checkedColors, checkedGender).types,
                colors |-> getSelectedFilters(checkedTypes, checkedColors, checkedGender).colors,
                gender |-> checkedGender]))

\* length of the i-th batch of a Filtered Result of length L
BatchLen(L, i) ==
    IF batchSize * i <= L THEN batchSize
    ELSE IF batchSize * (i - 1) < L THEN L - batchSize * (i - 1)
    ELSE 0

CeilDiv(a, b) == (a + b - 1) \div b

\* C9: the loadNextBatch calls since the last publish yield batches of B = 20
\* entities, a last shorter one when B does not divide L, ceil(L/B) non-empty
\* batches in all and only empty ones after them; the cards rendered are the
\* Filtered Result in order up to the end of the last batch.
BatchesPartitionFiltered ==
    LET L == Len(filteredData) IN
    /\ \A i \in DOMAIN batches :
          /\ batches[i].len = BatchLen(L, i)
          /\ batches[i].len > 0 <=> i <= CeilDiv(L, batchSize)
    /\ cards = SubSeq(filteredData, 1, Min(L, batchSize * Len(batches)))
    /\ Len(batches) >= CeilDiv(L, batchSize) => cards = filteredData

\* C9 witness: a Filtered Result of 45 entities was paged in batches of
\* 20, 20 and 5, and the next call rendered nothing.
FortyFivePagedOut ==
    /\ Len(filteredData) = 45
    /\ [i \in DOMAIN batches |-> batches[i].len] = <<20, 20, 5, 0>>
    /\ cards = filteredData

\* C10: the load-more button is visible exactly when the offset is below the
\* length of the Filtered Result, which is what each loadNextBatch call
\* reported; after an empty Filtered Result is published it is hidden.
LoadMoreIffEntitiesRemain ==
    /\ loadMoreVisible <=> currentBatchIndex < Len(filteredData)
    /\ \A i \in DOMAIN batches :
          batches[i].more <=> batchSize * i < Len(filteredData)
    /\ batches # <<>> => batches[Len(batches)].more = loadMoreVisible
    /\ (lastPub.id # 0 /\ filteredData = <<>>) => ~loadMoreVisible

\* C10 witness: paging 45 entities reported true, true, false and the button
\* is hidden at offset 60.
FortyFiveHasMoreTrueTrueFalse ==
    /\ Len(filteredData) = 45
    /\ [i \in DOMAIN batches |-> batches[i].more] = <<TRUE, TRUE, FALSE>>
    /\ currentBatchIndex = 60
    /\ ~loadMoreVisible

\* a click on the load-more button: one loadNextBatch call outside a publish
LoadMoreStep == Len(batches') = Len(batches) + 1 /\ ~PublishStep

\* C11 as stated: every loadNextBatch call advances the offset by batchSize,
\* also a call made with the offset at or past the end of the Filtered Result.
OffsetAlwaysAdvances ==
    [][LoadMoreStep => currentBatchIndex' = currentBatchIndex + batchSize]_vars

\* C11 amended: a loadNextBatch call made with the offset below the length of
\* the Filtered Result advances it by exactly batchSize, past the end if need
\* be (no clamping); a call made with the offset at or past the end returns
\* early and leaves the offset where it is.
OffsetAdvancesUnlessAtEnd ==
    [][/\ LoadMoreStep =>
            currentBatchIndex' =
                IF currentBatchIndex < Len(filteredData)
                THEN currentBatchIndex + batchSize
                ELSE currentBatchIndex
       /\ PublishStep =>
            currentBatchIndex' = IF Len(filteredData') > 0 THEN batchSize ELSE 0]_vars

\* C11 witness: 45 entities, three calls took the offset to 60, past the end,
\* and a fourth call left it there.
OffsetPastEndStays ==
    /\ Len(filteredData) = 45
    /\ Len(batches) = 4
    /\ currentBatchIndex = 60

\* C12: a loadNextBatch call made with the offset at or past the end of the
\* Filtered Result renders no card, leaves the load-more button hidden and
\* leaves the Filtered Result as it is.
NextBatchAtEndIsEmpty ==
    [][(LoadMoreStep /\ currentBatchIndex >= Len(filteredData)) =>
          /\ cards' = cards
          /\ ~loadMoreVisible'
          /\ filteredData' = filteredData
          /\ batches'[Len(batches')] = [len |-> 0, more |-> FALSE]]_vars

\* C12 witness: 20 entities were rendered by the first batch, the offset is 20
\* and a further call has rendered nothing.
CallAtEndRenderedNothing ==
    /\ Len(filteredData) = 20
    /\ currentBatchIndex = 20
    /\ [i \in DOMAIN batches |-> batches[i].len] = <<20, 0>>
    /\ cards = filteredData
    /\ ~loadMoreVisible

\* C13: a publish resets the offset to 0 before it emits the first batch,
\* whatever the offset was: the cards after a publish are entities
\* [0, batchSize) of the new Filtered Result, the offset is batchSize when the
\* result is non-empty and 0 when it is empty.
PublishResetsCursor ==
    [][PublishStep =>
          LET L == Len(filteredData') IN
          /\ cards' = SubSeq(filteredData', 1, Min(batchSize, L))
          /\ currentBatchIndex' = IF L > 0 THEN batchSize ELSE 0
          /\ batches' = IF L > 0
                        THEN <<[len |-> Min(batchSize, L), more |-> batchSize < L]>>
                        ELSE <<>>]_vars

\* C13 witness: over a catalog of 45 entities the query "7" was published
\* after the initial result; its few entities are all rendered, offset 20.
SearchPublishedFromStart ==
    /\ Len(pokemonData) = 45
    /\ lastPub.prev # 0
    /\ lastPub.query = <<"7">>
    /\ Len(filteredData) \in 1..(batchSize - 1)
    /\ cards = filteredData
    /\ currentBatchIndex = batchSize

\* C14: a pass that publishes with the catalog and the selection of the
\* publish before it publishes the same Filtered Result, whether the member
\* lists were fetched (successfully or not) by the earlier pass or by this one.
RepeatedPassSameResult ==
    [][(/\ PublishStep
        /\ lastPub.id # 0
        /\ lastPub.data = pokemonData'
        /\ lastPub.query = lastPub'.query
        /\ lastPub.types = lastPub'.types
        /\ lastPub.colors = lastPub'.colors
        /\ lastPub.gender = lastPub'.gender) => filteredData' = filteredData]_vars

\* C14 witness: "fire" was selected and its only fetch failed; the pass that
\* awaited it and a second pass with the same selection over the same
\* three-entry catalog both published, the second finding the settled lookup.
RepeatedAfterFailedFetch ==
    /\ lastPub.repeat
    /\ lastPub.data = SmallCatalog
    /\ lastPub.types = <<"fire">>
    /\ fetchCount["type"]["fire"] = 1
    /\ FetchFailed(World, "type", "fire")
    /\ filteredData = <<>>
    /\ passes = <<>>

\* the text without its leading and trailing blanks
Trimmed(s) ==
    IF OnlySpaces(s) THEN <<>>
    ELSE LET inked == {i \in DOMAIN s : s[i] # " "}
             first == CHOOSE i \in inked : \A k \in inked : i <= k
             last == CHOOSE i \in inked : \A k \in inked : k <= i
         IN SubSeq(s, first, last)

Folded(s) == [i \in DOMAIN s |-> lowerChar(s[i])]

Contains(s, sub) ==
    \E i \in 1..(Len(s) + 1) :
        /\ i + Len(sub) - 1 <= Len(s)
        /\ \A k \in DOMAIN sub : s[i + k - 1] = sub[k]

TextPredicate(e, query) ==
    \/ query = <<>>
    \/ Contains(Folded(e.name), query)
    \/ Contains(toString(e.id), query)

\* C15: a pass takes as its query the text of the search box, trimmed and
\* lower-cased; an entity passes the text predicate iff the query is empty or
\* its lower-cased name or the decimal text of its id contains the query; with
\* the other filters cleared the published result is the catalog restricted
\* by that predicate.
TextMatchDecides ==
    [][/\ nextId' # nextId =>
            LET p == passes'[Len(passes')]
            IN /\ p.query = Folded(Trimmed(searchInput'))
               /\ Len(p.ev) = Len(pokemonData')
               /\ \A i \in DOMAIN p.ev :
                     p.ev[i].q <=> TextPredicate(pokemonData'[i], p.query)
       /\ (/\ PublishStep
           /\ lastPub'.types = <<>>
           /\ lastPub'.colors = <<>>
           /\ lastPub'.gender = "all") =>
            filteredData' =
                LET q == lastPub'.query
                IN SelectSeq(pokemonData', LAMBDA e : TextPredicate(e, q))]_vars

\* C15 witness: the box holds " Char"; over [bulbasaur(1), charmander(4),
\* squirtle(7)] the pass it started published [charmander(4)].
CharFindsCharmander ==
    /\ searchInput = <<" ", "C", "h", "a", "r">>
    /\ lastPub.id = nextId
    /\ lastPub.query = <<"c", "h", "a", "r">>
    /\ pokemonData = SmallCatalog
    /\ filteredData = <<Pokemon(4, charmander)>>

\* C16: a pass invoked on an empty catalog evaluates nothing and issues no
\* member fetch, whatever is selected, and the pass published over an empty
\* catalog leaves an empty result and no card.
EmptyCatalogPassFetchesNothing ==
    [][/\ (nextId' # nextId /\ pokemonData' = <<>>) =>
            /\ passes'[Len(passes')].ev = <<>>
            /\ fetchCount' = fetchCount
            /\ typeMap' = typeMap \/ load'.type # load.type
            /\ colorMap' = colorMap \/ load'.color # load.color
            /\ genderMap' = genderMap \/ load'.gender # load.gender
       /\ (PublishStep /\ pokemonData = <<>>) =>
            /\ filteredData' = <<>>
            /\ cards' = <<>>
            /\ noResultsVisible']_vars

\* C16 witness: the catalog was loaded empty, fire and female are selected
\* and known to the lookup tables, the pass on them has published nothing
\* and no member list has ever been asked for.
EmptyCatalogSelectionPublished ==
    /\ initPhase = "done"
    /\ pokemonData = <<>>
    /\ lastPub.id = nextId
    /\ lastPub.types = <<"fire">>
    /\ lastPub.gender = "female"
    /\ "fire" \in DOMAIN typeMap
    /\ "female" \in DOMAIN genderMap
    /\ \A cat \in Cats : \A v \in AllValues(cat) : fetchCount[cat][v] = 0
    /\ filteredData = <<>>

\* C17: once one of the four initial requests has failed, the Filtered
\* Result stays empty and no card is rendered.
FailedInitLeavesNoContent ==
    initPhase = "failed" => filteredData = <<>> /\ cards = <<>>

\* a user event that checks no box, picks no gender and leaves the search
\* box alone: under SpecReset, the click on reset-all
ResetAllStep ==
    /\ userPasses' # userPasses
    /\ searchInput' = searchInput
    /\ checkedTypes' \subseteq checkedTypes
    /\ checkedColors' \subseteq checkedColors
    /\ checkedGender' \in {checkedGender, "all"}

WidgetsCleared == checkedTypes = {} /\ checkedColors = {} /\ checkedGender = "all"

\* C18: reset-all leaves no type and no colour checked and gender "all" and
\* starts a pass on that selection and the query of the search box, a pass
\* that waits for no fetch; when the newest pass publishes with the widgets
\* cleared and no other pass in flight, the result is the catalog restricted
\* by the text query only, the cursor is reset and the first batch rendered.
ResetAllPublishesTextOnly ==
    [][/\ ResetAllStep =>
            /\ WidgetsCleared'
            /\ nextId' = nextId + 1
            /\ LET p == passes'[Len(passes')]
               IN /\ p.id = nextId'
                  /\ p.types = <<>> /\ p.colors = <<>> /\ p.gender = "all"
                  /\ p.query = Folded(Trimmed(searchInput))
                  /\ PassFulfilled(p)
            /\ fetchCount' = fetchCount
       /\ (PublishStep /\ lastPub'.id = nextId /\ passes' = <<>> /\ WidgetsCleared) =>
            /\ lastPub'.types = <<>> /\ lastPub'.colors = <<>> /\ lastPub'.gender = "all"
            /\ lastPub'.query = Folded(Trimmed(searchInput))
            /\ filteredData' =
                 LET q == lastPub'.query
                 IN SelectSeq(pokemonData, LAMBDA e : TextPredicate(e, q))
            /\ cards' = SubSeq(filteredData', 1, Min(batchSize, Len(filteredData')))
            /\ currentBatchIndex' = IF Len(filteredData') > 0 THEN batchSize ELSE 0
            /\ Len(batches') = IF Len(filteredData') > 0 THEN 1 ELSE 0]_vars

\* C18 witness: fire was checked and its members fetched, reset-all cleared
\* it, and the pass of reset-all, the newest and the only one left, has
\* published the whole catalog from a reset cursor.
ResetAllPublishedCatalog ==
    /\ initPhase = "done"
    /\ fetchCount["type"]["fire"] = 1
    /\ typeMap["fire"].data.kind = "array"
    /\ WidgetsCleared
    /\ userPasses = 2
    /\ lastPub.id = nextId
    /\ passes = <<>>
    /\ pokemonData = SmallCatalog
    /\ filteredData = SmallCatalog
    /\ cards = SmallCatalog
    /\ currentBatchIndex = batchSize

\* the call of filterData numbered k is parked on its `await Promise.all`
Awaiting(k) == \E j \in DOMAIN passes : passes[j].id = k /\ passes[j].phase = "await"

\* the call parked at passes[j] leaves its await in this step
Completing(j) ==
    /\ passes[j].phase = "await"
    /\ ~\E i \in DOMAIN passes' :
          passes'[i].id = passes[j].id /\ passes'[i].phase = "await"

\* loader requests held: one by each parked call of filterData, one by
\* loadInitialData until its `finally`
OpenCalls ==
    Cardinality({j \in DOMAIN passes : passes[j].phase = "await"})
    + (IF initPhase \in {"loading", "filtering"} THEN 1 ELSE 0)

EveryPassCompletes == \A k \in 1..(MaxPasses + 1) : Awaiting(k) ~> ~Awaiting(k)

\* C19 as stated: with every issued fetch settling, every invoked pass
\* eventually completes and gives back its loader request; and a pass with an
\* evaluation still awaiting a fetch neither publishes nor releases the
\* loader.
AwaitingPassNeverReleases ==
    /\ EveryPassCompletes
    /\ [](loader.activeRequests = OpenCalls)
    /\ [][\A j \in DOMAIN passes : Completing(j) => ~Waiting(passes[j])]_vars

\* C19 amended: with every issued fetch settling, every invoked pass
\* eventually completes, by publishing or by logging an error, and the loader
\* holds exactly the requests of the calls still open; a pass with an
\* evaluation still awaiting a fetch never publishes, and it completes - error
\* logged, loader request released - only when another of its evaluations
\* has thrown.
AwaitingPassOnlyFails ==
    /\ EveryPassCompletes
    /\ [](loader.activeRequests = OpenCalls)
    /\ [][\A j \in DOMAIN passes : Completing(j) =>
            \/ /\ ~Waiting(passes[j])
               /\ PassFulfilled(passes[j])
               /\ PublishStep
               /\ lastPub'.id = passes[j].id
            \/ /\ PassRejected(passes[j])
               /\ ~PublishStep
               /\ filteredData' = filteredData
               /\ noResultsVisible']_vars

\* C19 witness: the type index failed to load; a pass with fire and red
\* checked has logged its error and released the loader while its colour
\* evaluations still await the members of red.
FailedWhileAwaitingRed ==
    /\ load.type = "failed"
    /\ "red" \in DOMAIN colorMap
    /\ colorMap["red"].data = PendingPromise
    /\ loader.activeRequests = 1
    /\ \E j \in DOMAIN passes :
          /\ passes[j].phase = "done"
          /\ passes[j].types = <<"fire">>
          /\ passes[j].colors = <<"red">>
          /\ Waiting(passes[j])

TableNext(cat) ==
    CASE cat = "type" -> typeMap'
      [] cat = "color" -> colorMap'
      [] cat = "gender" -> genderMap'

\* the names of the entries of a list
NamesOf(items) == {items[i].name : i \in DOMAIN items}

\* C20: when the response of an index request carries something that is no
\* list, transformStructuredData throws a TypeError, the getter fails and the
\* table gets no entry; when it carries a list, the table gets exactly one
\* entry per name in the list, with the url listed for that name and an
\* empty, unresolved member list (which the initial pass, started in the
\* same turn by the last getter, may already have put a request on).
TransformFailsFastOrTabulates ==
    [][\A cat \in Cats : received'[cat] # received[cat] =>
          IF received'[cat].kind # "array"
          THEN /\ transformStructuredData(received'[cat]) = TypeError
               /\ load'[cat] = "failed"
               /\ TableNext(cat) = MapOf(World, cat)
               /\ TableNext(cat) = EmptyMap
          ELSE /\ load'[cat] = "ok"
               /\ DOMAIN TableNext(cat) = NamesOf(received'[cat].items)
               /\ \A n \in DOMAIN TableNext(cat) :
                     /\ \E i \in DOMAIN received'[cat].items :
                           /\ received'[cat].items[i].name = n
                           /\ received'[cat].items[i].url = TableNext(cat)[n].url
                     /\ \/ TableNext(cat)[n].data = ArrayData(<<>>)
                        \/ /\ initPhase' = "filtering"
                           /\ fetchCount'[cat][n] = fetchCount[cat][n] + 1
                           /\ TableNext(cat)[n].data = PendingPromise]_vars

\* C20 witness: the type index came back without a list and the type table
\* has no entry; the colour index listed red twice and the colour table
\* holds the one entry of red, its member list empty.
UndefinedTypesRedTwice ==
    /\ received["type"] = Undefined
    /\ load.type = "failed"
    /\ typeMap = EmptyMap
    /\ received["color"] = results("color", <<"red", "red">>)
    /\ load.color = "ok"
    /\ DOMAIN colorMap = {"red"}
    /\ colorMap["red"] = [url |-> <<"color", "red">>, data |-> ArrayData(<<>>)]

\* C21: once the catalog request has returned, no step - filter pass,
\* loadNextBatch, reset, member request settling - changes the catalog.
CatalogImmutableAfterLoad ==
    [][load.pokemon \in {"ok", "failed"} => pokemonData' = pokemonData]_vars

\* C21 witness: over the loaded catalog a pass on fire has fetched its
\* members and published, reset-all has published again and a second batch
\* has been rendered by the load-more button; the catalog is as loaded.
CatalogAsLoadedAfterEverything ==
    /\ load.pokemon = "ok"
    /\ fetchCount["type"]["fire"] = 1
    /\ "fire" \in DOMAIN typeMap
    /\ typeMap["fire"].data.kind = "array"
    /\ userPasses = 2
    /\ lastPub.id = nextId
    /\ Len(batches) = 2
    /\ pokemonData = LongCatalog(MaxCatalog)

\* C22: whenever no continuation of a handler is waiting to run, the cards
\* in the container are the first min(offset, L) entities of the Filtered
\* Result, in order, L being its length.
CardsArePrefixOfFiltered ==
    ~Runnable =>
        cards = SubSeq(filteredData, 1, Min(currentBatchIndex, Len(filteredData)))

\* C22 witness: a pass started before the published one still awaits the
\* members of fire; the load-more button was clicked after that publish and
\* two batches of the published result are on the page.
ClickedWhilePassInFlight ==
    /\ \E j \in DOMAIN passes :
          /\ passes[j].id < lastPub.id
          /\ passes[j].phase = "await"
          /\ Waiting(passes[j])
    /\ Len(batches) = 2
    /\ currentBatchIndex = 2 * batchSize
    /\ Len(cards) = 2 * batchSize
    /\ Len(filteredData) > 2 * batchSize

\* C23: when a pass completes with an evaluation that has thrown, nothing is
\* published: the Filtered Result, the cursor offset and the rendered cards
\* stay as they were, and the exception stops in filterData (a handler that
\* called it goes on normally, loadInitialData does not take its catch).
ThrowingPassPublishesNothing ==
    [][\A j \in DOMAIN passes : (Completing(j) /\ PassRejected(passes[j])) =>
          /\ filteredData' = filteredData
          /\ currentBatchIndex' = currentBatchIndex
          /\ cards' = cards
          /\ lastPub' = lastPub
          /\ initPhase' # "failed" \/ initPhase = "failed"]_vars

\* C23 witness: the type index failed to load; with a result published and
\* its cards on the page, fire was checked: the newest pass threw, has
\* ended, and the result and the cards are still there.
FirePassThrewPageKept ==
    /\ load.type = "failed"
    /\ checkedTypes = {"fire"}
    /\ "fire" \notin DOMAIN typeMap
    /\ passes = <<>>
    /\ lastPub.id > 0
    /\ lastPub.id < nextId
    /\ lastPub.types = <<>>
    /\ filteredData # <<>>
    /\ cards = SubSeq(filteredData, 1, Min(currentBatchIndex, Len(filteredData)))
    /\ cards # <<>>

\* C24: when a pass completes, by publishing or with an error, the no-results
\* message is visible exactly when the Filtered Result is empty.
NoResultsIffFilteredEmpty ==
    [][\A j \in DOMAIN passes : Completing(j) =>
          (noResultsVisible' <=> filteredData' = <<>>)]_vars

\* C25: once the table holds a non-empty list of members for a value, no
\* step changes that entry and no step issues a request for that value.
StoredMembersAreFinal ==
    [][\A cat \in Cats : \A v \in DOMAIN MapOf(World, cat) :
          (/\ MapOf(World, cat)[v].data.kind = "array"
           /\ Len(MapOf(World, cat)[v].data.val) > 0) =>
              /\ v \in DOMAIN TableNext(cat)
              /\ TableNext(cat)[v] = MapOf(World, cat)[v]
              /\ fetchCount'[cat][v] = fetchCount[cat][v]]_vars

\* C25 witness: the members of fire were fetched once and stored; a later
\* pass with fire checked has evaluated every entity without awaiting
\* anything, and the stored list and the request count are as they were.
LaterPassReadStoredFire ==
    /\ "fire" \in DOMAIN typeMap
    /\ typeMap["fire"].data = ArrayData(Members("type", "fire"))
    /\ fetchCount["type"]["fire"] = 1
    /\ \E j \in DOMAIN passes :
          /\ passes[j].phase = "await"
          /\ passes[j].types = <<"fire">>
          /\ passes[j].ev # <<>>
          /\ \A i \in DOMAIN passes[j].ev : passes[j].ev[i].type.obs = <<>>

\* what the request for the members of value v has brought, as the tables
\* show it after the step: the members if it succeeded, nothing otherwise
Outcome(cat, v) ==
    IF v \in DOMAIN TableNext(cat) /\ TableNext(cat)[v].data.kind = "array"
    THEN Members(cat, v) ELSE <<>>

InSomeOutcome(cat, values, name) ==
    \E k \in DOMAIN values : \E m \in DOMAIN Outcome(cat, values[k]) :
        Outcome(cat, values[k])[m] = name

\* C26: the result a pass publishes is a function of the catalog, its
\* selection and the outcomes of the member requests alone - the entities, in
\* catalog order, that match the query and are, per category with a
\* selection, in the members brought for one of the selected values -
\* whatever the order in which the requests settled.
ResultIndependentOfSettleOrder ==
    [][PublishStep =>
          filteredData' =
             LET sel == lastPub'
             IN SelectSeq(pokemonData,
                   LAMBDA e :
                      /\ TextPredicate(e, sel.query)
                      /\ sel.types = <<>> \/ InSomeOutcome("type", sel.types, e.name)
                      /\ sel.colors = <<>> \/ InSomeOutcome("color", sel.colors, e.name)
                      /\ sel.gender = "all"
                            \/ InSomeOutcome("gender", <<sel.gender>>, e.name))]_vars

\* C26 witness: one pass with fire and red checked had the requests for both
\* in flight: an entity of it awaited the members of fire and the members of
\* red, both have settled and the pass is about to publish.
PassAwaitedFireAndRed ==
    \E j \in DOMAIN passes :
        /\ passes[j].phase = "await"
        /\ PassFulfilled(passes[j])
        /\ passes[j].types = <<"fire">>
        /\ passes[j].colors = <<"red">>
        /\ \E i \in DOMAIN passes[j].ev :
              /\ passes[j].ev[i].type.obs # <<>>
              /\ passes[j].ev[i].color.obs # <<>>

\* the evaluations that, after the step, await request number fid of value v
AwaitingRequest(cat, v, fid) ==
    {w \in {<<j, i>> : j \in DOMAIN passes', i \in 1..MaxCatalog} :
        /\ w[2] \in DOMAIN passes'[w[1]].ev
        /\ passes'[w[1]].ev[w[2]][cat].st = "wait"
        /\ passes'[w[1]].ev[w[2]][cat].fid = fid
        /\ ValuesOf(passes'[w[1]], cat)[passes'[w[1]].ev[w[2]][cat].k] = v}

\* after the step value v of the category has resolved, to a list without name
ResolvedWithout(cat, v, name) ==
    /\ v \in DOMAIN TableNext(cat)
    /\ TableNext(cat)[v].data # PendingPromise
    /\ ~arrayIncludes(TableNext(cat)[v].data.val, name)

\* C27: a step that issues the member request of a value leaves an evaluation
\* awaiting it, and for every evaluation awaiting it each value selected
\* before it in the same category has resolved to a list that does not hold
\* the entity's name: requests within a category go out in selection order,
\* one after the other has resolved, and never for an entity already found.
RequestsWithinCategoryInOrder ==
    [][\A cat \in Cats : \A v \in AllValues(cat) :
          fetchCount'[cat][v] > fetchCount[cat][v] =>
             /\ AwaitingRequest(cat, v, fetchCount'[cat][v]) # {}
             /\ \A w \in AwaitingRequest(cat, v, fetchCount'[cat][v]) :
                   \A k \in 1..(passes'[w[1]].ev[w[2]][cat].k - 1) :
                      ResolvedWithout(cat, ValuesOf(passes'[w[1]], cat)[k],
                                      pokemonData'[w[2]].name)]_vars

\* C27 witness: a pass with fire and shadow checked over the scenario catalog:
\* fire has resolved, charmander was found in it and looked no further, and
\* bulbasaur awaits the members of shadow, asked for once.
ShadowAskedAfterFireResolved ==
    /\ pokemonData = SmallCatalog
    /\ \E j \in DOMAIN passes :
          /\ passes[j].types = <<"fire", "shadow">>
          /\ Len(passes[j].ev) = 3
          /\ passes[j].ev[1].type.st = "wait"
          /\ passes[j].ev[1].type.k = 2
          /\ passes[j].ev[2].type.st = "true"
    /\ {"fire", "shadow"} \subseteq DOMAIN typeMap
    /\ typeMap["fire"].data = ArrayData(Members("type", "fire"))
    /\ typeMap["shadow"].data = PendingPromise
    /\ fetchCount["type"]["shadow"] = 1

\* C28: the loader holds one request for each call of filterData that has not
\* finished and one for loadInitialData until it has: every show() is given
\* back by one hide(), so with no pass and no initial load in flight the
\* counter is 0 and the loader is hidden.
LoaderIdleWhenNothingInFlight ==
    /\ loader.activeRequests = OpenCalls
    /\ OpenCalls = 0 => loader = PokeballLoader
    /\ OpenCalls > 0 => loader.visible

\* C28 witness: the initial load has failed, a pass has published the catalog,
\* the button has been clicked for a second batch and the pass of the fire
\* box has failed; nothing is in flight.
IdleAfterFailedLoadClickAndFailedPass ==
    /\ initPhase = "failed"
    /\ OpenCalls = 0
    /\ userPasses = MaxPasses
    /\ checkedTypes = {"fire"}
    /\ noResultsVisible
    /\ Len(batches) = 2
    /\ loader = PokeballLoader

\* C29: after any sequence of show() and hide() calls on the loader, more
\* hide() than show() calls included, activeRequests is not negative and the
\* loader is visible exactly when activeRequests is greater than 0.
LoaderCounterNeverNegative ==
    /\ loader.activeRequests >= 0
    /\ loader.visible <=> loader.activeRequests > 0

\* C29 witness: hide() has been called more often than show(), and after the
\* last show() the loader holds one request and is visible.
MoreHidesThanShowsThenShown ==
    /\ loaderCalls.show > 0
    /\ loaderCalls.hide > loaderCalls.show
    /\ loader = show(PokeballLoader)

====
